---- MODULE Spec2Model ----
(***************************************************************************)
(* Device and presentation negotiation of HelloTriangleApplication         *)
(* (src/src/main.rs): queue family resolution, device suitability,         *)
(* physical device selection, logical device creation and swapchain        *)
(* parameter negotiation.                                                  *)
(*                                                                         *)
(* The graphics runtime is the environment: what it reports (devices,      *)
(* queue families, surface support, capabilities) is drawn in the initial  *)
(* state and never changes during a run.  Every fallible runtime query     *)
(* (a Rust Result) is either Ok with a value or Err; the code's            *)
(* unwrap()/expect() on an Err is a panic, which ends the run.             *)
(***************************************************************************)
EXTENDS Integers, Sequences, FiniteSets, TLC

\* ------------------------------------------------------------------ bounds
\* Longest queue family list of one device.
MaxFamilies == 3
\* Longest device list in the selection runs, and the longest queue family
\* list of a device in them.
MaxDevices == 2
MaxPickFamilies == 1
\* Longest list of supported (format, colour space) pairs.
MaxFormats == 3
\* Largest extent bound; window sizes range one further.
MaxExtent == 2
\* Largest image count bound.
MaxCount == 3

\* ------------------------------------------------------------- state
VARIABLES
    \* find_queue_family_ids, one loop iteration at a time
    families,               \* the scanned device's queue families, in order
    family_i,               \* 0-based position of the next family to visit
    family_ids,             \* the QueueFamilyIndices being filled
    scan_pc,                \* "idle" | "loop" | "returned" | "panicked"
    \* pick_physical_device
    devices,                \* PhysicalDevice::enumerate(instance), in order
    inner_size,             \* surface.window().inner_size(), <<width, height>>
    device_i,               \* 0-based position of the next device to filter
    verdicts,               \* outcome of is_device_suitable per filtered device
    pick_pc,                \* "idle" | "filter" | "returned" | "panicked"
    physical_device_index,  \* the index pick_physical_device returned
    \* create_logical_device and create_swap_chain
    create_pc,              \* "idle" | "start" | "device_created" |
                            \* "swapchain_created" | "panicked"
    queue_create_infos,     \* family ids, in the order they were requested
    graphics_queue,         \* Option of a queue handle
    present_queue,          \* Option of a queue handle
    swapchain_create_info   \* Option of the SwapchainCreateInfo passed on

scanVars == <<families, family_i, family_ids, scan_pc>>
pickVars == <<devices, inner_size, device_i, verdicts, pick_pc, physical_device_index>>
createVars == <<create_pc, queue_create_infos, graphics_queue, present_queue,
                swapchain_create_info>>
vars == <<scanVars, pickVars, createVars>>

\* ------------------------------------------------------------- Option, Result
\* Option<T>: None is the empty set, Some(x) the singleton.
None == {}
Some(x) == {x}
is_some(o) == o # {}
unwrap(o) == CHOOSE x \in o : TRUE

\* Result<T, E>: Err carries a placeholder of T's shape, never read.
Ok(v) == [ok |-> TRUE, value |-> v]
Err(placeholder) == [ok |-> FALSE, value |-> placeholder]

SeqsUpTo(S, n) == UNION {[1..k -> S] : k \in 0..n}
Range(s) == {s[k] : k \in DOMAIN s}
SetMin(S) == CHOOSE x \in S : \A y \in S : x <= y

\* ------------------------------------------------------------- clamp
cmp_min(a, b) == IF a <= b THEN a ELSE b
cmp_max(a, b) == IF a >= b THEN a ELSE b

\* A clamp that lost its lower bound.
clamp_upper_only(val, min, max) == cmp_min(val, max)

clamp(val, min, max) == cmp_max(cmp_min(val, max), min)

\* ------------------------------------------------------------- QueueFamilyIndices
QueueFamilyIndices_new == [graphics_family_id |-> None, presentation_family_id |-> None]

is_complete(ids) == is_some(ids.graphics_family_id) /\ is_some(ids.presentation_family_id)

\* ------------------------------------------------------------- queue families
\* family.supports_surface(surface) is a Result<bool, _>.
SurfaceSupportResults == {"Ok(true)", "Ok(false)", "Err"}

QueueFamilies == [supports_graphics : BOOLEAN, supports_surface : SurfaceSupportResults]

\* The id of a family is its position in the device's list, from 0.
FamilyLists(n) == SeqsUpTo(QueueFamilies, n)

\* A loop body that records the presentation family wherever it records the
\* graphics family.
scan_family_conflating(ids, family, id) ==
    LET g == IF family.supports_graphics THEN Some(id) ELSE ids.graphics_family_id
    IN  IF family.supports_surface = "Err"
        THEN [panicked |-> TRUE,
              ids |-> [graphics_family_id |-> g,
                       presentation_family_id |-> ids.presentation_family_id]]
        ELSE [panicked |-> FALSE,
              ids |-> [graphics_family_id |-> g,
                       presentation_family_id |->
                           IF family.supports_graphics
                           THEN Some(id) ELSE ids.presentation_family_id]]

\* One iteration of the for loop of find_queue_family_ids, up to the
\* completeness test: the graphics assignment, the fallible surface query,
\* the presentation assignment.
scan_family(ids, family, id) ==
    LET g == IF family.supports_graphics THEN Some(id) ELSE ids.graphics_family_id
    IN  IF family.supports_surface = "Err"
        THEN [panicked |-> TRUE,
              ids |-> [graphics_family_id |-> g,
                       presentation_family_id |-> ids.presentation_family_id]]
        ELSE [panicked |-> FALSE,
              ids |-> [graphics_family_id |-> g,
                       presentation_family_id |->
                           IF family.supports_surface = "Ok(true)"
                           THEN Some(id) ELSE ids.presentation_family_id]]

\* The loop from position i (1-based into fams) on, with its break.
RECURSIVE find_queue_family_ids_from(_, _, _)
find_queue_family_ids_from(fams, i, ids) ==
    IF i > Len(fams)
    THEN [panicked |-> FALSE, ids |-> ids]
    ELSE LET r == scan_family(ids, fams[i], i - 1)
         IN  IF r.panicked \/ is_complete(r.ids)
             THEN r
             ELSE find_queue_family_ids_from(fams, i + 1, r.ids)

find_queue_family_ids(fams) == find_queue_family_ids_from(fams, 1, QueueFamilyIndices_new)

\* ------------------------------------------------- find_queue_family_ids, stepwise
ScanIdle ==
    /\ families = <<>>
    /\ family_i = 0
    /\ family_ids = QueueFamilyIndices_new
    /\ scan_pc = "idle"

\* The loop body on the next family: assignments, then break when complete.
ScanFamily ==
    /\ scan_pc = "loop"
    /\ family_i < Len(families)
    /\ LET r == scan_family(family_ids, families[family_i + 1], family_i)
       IN  /\ family_ids' = r.ids
           /\ scan_pc' = IF r.panicked THEN "panicked"
                         ELSE IF is_complete(r.ids) THEN "returned"
                         ELSE "loop"
           /\ family_i' = IF r.panicked \/ is_complete(r.ids) THEN family_i
                          ELSE family_i + 1
    /\ UNCHANGED <<families, pickVars, createVars>>

\* The iterator is exhausted: the function returns what it has.
ScanExhausted ==
    /\ scan_pc = "loop"
    /\ family_i = Len(families)
    /\ scan_pc' = "returned"
    /\ UNCHANGED <<families, family_i, family_ids, pickVars, createVars>>

\* ------------------------------------------------------------- surface support
\* SurfaceCapabilities, as far as the negotiation reads it.  max_image_count is
\* an Option: None when the runtime reports no maximum.
PresentModes == {"Fifo", "Mailbox", "Immediate"}
Formats == {"B8G8R8A8_SRGB", "B8G8R8A8_UNORM"}
ColorSpaces == {"SrgbNonLinear", "ExtendedSrgbLinear"}
FormatPairs == Formats \X ColorSpaces

\* One fixed capability report and window size, for the runs that vary
\* something else.
SampleCapabilities ==
    [min_image_count |-> 2, max_image_count |-> None,
     min_image_extent |-> <<1, 1>>, max_image_extent |-> <<2, 2>>,
     current_transform |-> "Identity",
     supported_composite_alpha |-> <<"Opaque">>]
SampleFormats == <<<<"B8G8R8A8_SRGB", "SrgbNonLinear">>>>
SamplePresentModes == <<"Fifo">>
SampleInnerSize == <<1, 1>>
\* One shared family, and a graphics family followed by a presentation family.
SampleFamilyLists ==
    {<<[supports_graphics |-> TRUE, supports_surface |-> "Ok(true)"]>>,
     <<[supports_graphics |-> TRUE, supports_surface |-> "Ok(false)"],
       [supports_graphics |-> FALSE, supports_surface |-> "Ok(true)"]>>}

\* ------------------------------------------------------------- physical devices
PhysicalDeviceTypes == {"DiscreteGpu", "IntegratedGpu"}

\* What the runtime answers for one physical device and the surface: its
\* properties, its supported extensions, its queue families, and the three
\* fallible surface queries.
PhysicalDevice(type, ext, fams, caps, fmts, modes) ==
    [device_type |-> type,
     khr_swapchain |-> ext,
     queue_families |-> fams,
     surface_capabilities |-> caps,
     surface_formats |-> fmts,
     surface_present_modes |-> modes]

\* The devices of the selection runs: every type, extension flag and family
\* list up to n families; each surface query fails, reports nothing, or
\* reports one entry.
PhysicalDevices(n) ==
    {PhysicalDevice(type, ext, fams, caps, fmts, modes) :
        type \in PhysicalDeviceTypes, ext \in BOOLEAN, fams \in FamilyLists(n),
        caps \in {Ok(SampleCapabilities), Err(SampleCapabilities)},
        fmts \in {Ok(SampleFormats), Ok(<<>>), Err(<<>>)},
        modes \in {Ok(SamplePresentModes), Ok(<<>>), Err(<<>>)}}

\* query_swap_chain_support: three queries, each unwrapped.
query_swap_chain_support(physical_device) ==
    IF /\ physical_device.surface_capabilities.ok
       /\ physical_device.surface_formats.ok
       /\ physical_device.surface_present_modes.ok
    THEN [panicked |-> FALSE,
          capabilities |-> physical_device.surface_capabilities.value,
          formats |-> physical_device.surface_formats.value,
          present_modes |-> physical_device.surface_present_modes.value]
    ELSE [panicked |-> TRUE,
          capabilities |-> SampleCapabilities,
          formats |-> <<>>,
          present_modes |-> <<>>]

\* A suitability test that forgot the device type.
is_device_suitable_any_type(physical_device) ==
    LET queue_family_ids == find_queue_family_ids(physical_device.queue_families)
        support == query_swap_chain_support(physical_device)
        swap_chain_supported ==
            IF physical_device.khr_swapchain
            THEN support.formats # <<>> /\ support.present_modes # <<>>
            ELSE FALSE
    IN  IF queue_family_ids.panicked \/ support.panicked
        THEN [panicked |-> TRUE, value |-> FALSE]
        ELSE [panicked |-> FALSE,
              value |-> /\ swap_chain_supported
                        /\ is_complete(queue_family_ids.ids)
                        /\ physical_device.khr_swapchain]

\* is_device_suitable: both helper calls run first, unconditionally, and a
\* panic in either ends the run; otherwise the verdict is the conjunction.
is_device_suitable(physical_device) ==
    LET queue_family_ids == find_queue_family_ids(physical_device.queue_families)
        support == query_swap_chain_support(physical_device)
        swap_chain_supported ==
            IF physical_device.khr_swapchain
            THEN support.formats # <<>> /\ support.present_modes # <<>>
            ELSE FALSE
    IN  IF queue_family_ids.panicked \/ support.panicked
        THEN [panicked |-> TRUE, value |-> FALSE]
        ELSE [panicked |-> FALSE,
              value |-> /\ physical_device.device_type = "DiscreteGpu"
                        /\ swap_chain_supported
                        /\ is_complete(queue_family_ids.ids)
                        /\ physical_device.khr_swapchain]

\* ------------------------------------------------------------- pick_physical_device
PickIdle ==
    /\ devices = <<>>
    /\ inner_size = SampleInnerSize
    /\ device_i = 0
    /\ verdicts = <<>>
    /\ pick_pc = "idle"
    /\ physical_device_index = None

\* The filter closure on the next enumerated device; next() stops at the
\* first device it accepts, and index() of that device is returned.
PickFilter ==
    /\ pick_pc = "filter"
    /\ device_i < Len(devices)
    /\ LET v == is_device_suitable(devices[device_i + 1])
       IN  /\ verdicts' = Append(verdicts, v)
           /\ pick_pc' = IF v.panicked THEN "panicked"
                         ELSE IF v.value THEN "returned"
                         ELSE "filter"
           /\ physical_device_index' =
                  IF ~v.panicked /\ v.value THEN Some(device_i) ELSE None
           /\ device_i' = IF v.panicked \/ v.value THEN device_i ELSE device_i + 1
    /\ UNCHANGED <<devices, inner_size, scanVars, createVars>>

\* next() found nothing: expect("No Physical device found") panics.
PickNone ==
    /\ pick_pc = "filter"
    /\ device_i = Len(devices)
    /\ pick_pc' = "panicked"
    /\ UNCHANGED <<devices, inner_size, device_i, verdicts, physical_device_index,
                   scanVars, createVars>>

\* ------------------------------------------------------------- create_logical_device
\* into_iter() of a HashSet yields its elements in an unspecified order:
\* every order is possible.
HashSetOrders(S) == {s \in [1..Cardinality(S) -> S] : Range(s) = S}

\* Device::new hands back one queue per QueueCreateInfo, in request order.
\* A queue handle names its family; each family is asked for a single queue.
Queue(family_id) == [family |-> family_id, id_within_family |-> 0]

CreateIdle ==
    /\ create_pc = "idle"
    /\ queue_create_infos = <<>>
    /\ graphics_queue = None
    /\ present_queue = None
    /\ swapchain_create_info = None

\* create_logical_device with Device::new succeeding: resolve the families,
\* deduplicate them, request one queue per unique family, then take the
\* first returned queue as graphics queue and the second, or a clone of the
\* first, as present queue.
CreateLogicalDevice ==
    /\ pick_pc = "returned"
    /\ create_pc = "start"
    /\ LET physical_device == devices[unwrap(physical_device_index) + 1]
           queue_family_ids == find_queue_family_ids(physical_device.queue_families)
       IN  IF queue_family_ids.panicked \/ ~is_complete(queue_family_ids.ids)
           THEN /\ create_pc' = "panicked"
                /\ UNCHANGED <<queue_create_infos, graphics_queue, present_queue>>
           ELSE \E order \in HashSetOrders(
                        {unwrap(queue_family_ids.ids.graphics_family_id),
                         unwrap(queue_family_ids.ids.presentation_family_id)}) :
                    /\ queue_create_infos' = order
                    /\ graphics_queue' = Some(Queue(order[1]))
                    /\ present_queue' = IF Len(order) >= 2
                                        THEN Some(Queue(order[2]))
                                        ELSE Some(Queue(order[1]))
                    /\ create_pc' = "device_created"
    /\ UNCHANGED <<swapchain_create_info, scanVars, pickVars>>

\* ------------------------------------------------------------- create_swap_chain
\* A format test that looks at the pixel format only.
choose_swap_surface_format_ignoring_color_space(available_formats) ==
    LET hits == {k \in DOMAIN available_formats :
                    available_formats[k][1] = "B8G8R8A8_SRGB"}
    IN  IF hits # {} THEN available_formats[SetMin(hits)] ELSE available_formats[1]

\* find() returns the first element the closure accepts; unwrap_or falls back
\* to element 0.  Defined on non-empty lists: the fallback is evaluated
\* eagerly, so an empty list panics.
choose_swap_surface_format(available_formats) ==
    LET hits == {k \in DOMAIN available_formats :
                    /\ available_formats[k][1] = "B8G8R8A8_SRGB"
                    /\ available_formats[k][2] = "SrgbNonLinear"}
    IN  IF hits # {} THEN available_formats[SetMin(hits)] ELSE available_formats[1]

choose_swap_present_modes(available_modes) ==
    IF "Mailbox" \in Range(available_modes) THEN "Mailbox" ELSE "Fifo"

choose_swap_extent(capabilities, size) ==
    <<clamp(size[1], capabilities.min_image_extent[1], capabilities.max_image_extent[1]),
      clamp(size[2], capabilities.min_image_extent[2], capabilities.max_image_extent[2])>>

\* An image count that is never capped.
min_image_count_uncapped(capabilities) == capabilities.min_image_count + 1

\* The image count requested: one more than the minimum, capped by the
\* maximum when there is one.  (u32 arithmetic; the counts here are far from
\* the type's limit.)
min_image_count(capabilities) ==
    LET count == capabilities.min_image_count + 1
    IN  IF /\ is_some(capabilities.max_image_count)
           /\ count > unwrap(capabilities.max_image_count)
        THEN unwrap(capabilities.max_image_count)
        ELSE count

\* A sharing mode that lists the two families the other way round.
image_sharing_swapped(ids) ==
    IF unwrap(ids.graphics_family_id) = unwrap(ids.presentation_family_id)
    THEN [mode |-> "Exclusive", queue_family_ids |-> <<>>]
    ELSE [mode |-> "Concurrent",
          queue_family_ids |-> <<unwrap(ids.presentation_family_id),
                                 unwrap(ids.graphics_family_id)>>]

image_sharing(ids) ==
    IF unwrap(ids.graphics_family_id) = unwrap(ids.presentation_family_id)
    THEN [mode |-> "Exclusive", queue_family_ids |-> <<>>]
    ELSE [mode |-> "Concurrent",
          queue_family_ids |-> <<unwrap(ids.graphics_family_id),
                                 unwrap(ids.presentation_family_id)>>]

\* create_swap_chain with Swapchain::new succeeding: query the support again,
\* choose format, present mode, extent and image count, resolve the families
\* again for the sharing mode, and pass the SwapchainCreateInfo on.
CreateSwapChain ==
    /\ create_pc = "device_created"
    /\ LET physical_device == devices[unwrap(physical_device_index) + 1]
           support == query_swap_chain_support(physical_device)
           queue_family_ids == find_queue_family_ids(physical_device.queue_families)
       IN  IF \/ support.panicked
              \/ support.formats = <<>>
              \/ support.capabilities.supported_composite_alpha = <<>>
              \/ queue_family_ids.panicked
              \/ ~is_complete(queue_family_ids.ids)
           THEN /\ create_pc' = "panicked"
                /\ UNCHANGED swapchain_create_info
           ELSE /\ swapchain_create_info' = Some(
                       [min_image_count |-> min_image_count(support.capabilities),
                        image_format |-> choose_swap_surface_format(support.formats)[1],
                        image_color_space |->
                            choose_swap_surface_format(support.formats)[2],
                        image_extent |->
                            choose_swap_extent(support.capabilities, inner_size),
                        image_usage |-> {"color_attachment"},
                        pre_transform |-> support.capabilities.current_transform,
                        composite_alpha |->
                            support.capabilities.supported_composite_alpha[1],
                        present_mode |->
                            choose_swap_present_modes(support.present_modes),
                        image_sharing |-> image_sharing(queue_family_ids.ids)])
                /\ create_pc' = "swapchain_created"
    /\ UNCHANGED <<queue_create_infos, graphics_queue, present_queue, scanVars, pickVars>>

\* ------------------------------------------------------------- specifications
\* find_queue_family_ids over every family list.
InitScan ==
    /\ families \in FamilyLists(MaxFamilies)
    /\ family_i = 0
    /\ family_ids = QueueFamilyIndices_new
    /\ scan_pc = "loop"
    /\ PickIdle
    /\ CreateIdle

NextScan == ScanFamily \/ ScanExhausted

SpecScan == InitScan /\ [][NextScan]_vars

\* pick_physical_device over a single device of every kind.
InitSuitable ==
    /\ ScanIdle
    /\ devices \in {<<d>> : d \in PhysicalDevices(MaxFamilies)}
    /\ inner_size = SampleInnerSize
    /\ device_i = 0
    /\ verdicts = <<>>
    /\ pick_pc = "filter"
    /\ physical_device_index = None
    /\ CreateIdle

\* pick_physical_device over device lists.
InitPick ==
    /\ ScanIdle
    /\ devices \in SeqsUpTo(PhysicalDevices(MaxPickFamilies), MaxDevices)
    /\ inner_size = SampleInnerSize
    /\ device_i = 0
    /\ verdicts = <<>>
    /\ pick_pc = "filter"
    /\ physical_device_index = None
    /\ CreateIdle

NextPick == PickFilter \/ PickNone

SpecSuitable == InitSuitable /\ [][NextPick]_vars

SpecPick == InitPick /\ [][NextPick]_vars

\* create_logical_device and create_swap_chain on the device that
\* pick_physical_device returned: a device is_device_suitable accepted.
InitCreate(fams, caps, fmts, modes, size) ==
    /\ ScanIdle
    /\ devices = <<PhysicalDevice("DiscreteGpu", TRUE, fams, Ok(caps), Ok(fmts), Ok(modes))>>
    /\ is_device_suitable(devices[1]).value
    /\ inner_size = size
    /\ device_i = 0
    /\ verdicts = <<is_device_suitable(devices[1])>>
    /\ pick_pc = "returned"
    /\ physical_device_index = Some(0)
    /\ create_pc = "start"
    /\ queue_create_infos = <<>>
    /\ graphics_queue = None
    /\ present_queue = None
    /\ swapchain_create_info = None

NextCreate == CreateLogicalDevice \/ CreateSwapChain

\* Every family layout.
InitQueues ==
    \E fams \in FamilyLists(MaxFamilies) :
        InitCreate(fams, SampleCapabilities, SampleFormats, SamplePresentModes,
                   SampleInnerSize)

SpecQueues == InitQueues /\ [][NextCreate]_vars

\* Every capability report and window size.  The runtime reports
\* min <= max for extents, a minimum image count of at least 1, and a
\* maximum image count that is absent or at least the minimum.
ExtentBounds == {b \in (0..MaxExtent) \X (0..MaxExtent) : b[1] <= b[2]}

CapabilityReports ==
    {[min_image_count |-> lo, max_image_count |-> hi,
      min_image_extent |-> <<w[1], h[1]>>, max_image_extent |-> <<w[2], h[2]>>,
      current_transform |-> "Identity",
      supported_composite_alpha |-> <<"Opaque">>] :
        lo \in 1..MaxCount,
        hi \in {None} \cup {Some(n) : n \in 1..MaxCount},
        w \in ExtentBounds, h \in ExtentBounds}

InitCapabilities ==
    \E caps \in {c \in CapabilityReports :
                    \A n \in c.max_image_count : c.min_image_count <= n},
       size \in (0..(MaxExtent + 1)) \X (0..(MaxExtent + 1)),
       fams \in SampleFamilyLists :
        InitCreate(fams, caps, SampleFormats, SamplePresentModes, size)

SpecCapabilities == InitCapabilities /\ [][NextCreate]_vars

\* Every non-empty list of supported formats, with every list of present modes
\* of at most one entry.
InitFormats ==
    \E fmts \in SeqsUpTo(FormatPairs, MaxFormats) \ {<<>>},
       modes \in {<<m>> : m \in PresentModes},
       fams \in SampleFamilyLists :
        InitCreate(fams, SampleCapabilities, fmts, modes, SampleInnerSize)

SpecFormats == InitFormats /\ [][NextCreate]_vars

\* ------------------------------------------------------------- properties
SupportsGraphics(family) == family.supports_graphics
SupportsPresentation(family) == family.supports_surface = "Ok(true)"

GraphicsPositions(fams) == {k \in DOMAIN fams : SupportsGraphics(fams[k])}
PresentationPositions(fams) == {k \in DOMAIN fams : SupportsPresentation(fams[k])}

\* The id of the lowest-position family in a set of positions, if any.
LowestId(positions) == IF positions = {} THEN None ELSE Some(SetMin(positions) - 1)

NoFailingQuery(fams) == \A k \in DOMAIN fams : fams[k].supports_surface # "Err"

\* C1: when no presentation-support query fails, find_queue_family_ids
\* returns as graphics family the lowest-position family supporting graphics
\* and as present family the lowest-position family supporting presentation;
\* a later match never replaces a recorded index.
C1_FirstMatchWins ==
    (scan_pc = "returned" /\ NoFailingQuery(families)) =>
        /\ family_ids.graphics_family_id = LowestId(GraphicsPositions(families))
        /\ family_ids.presentation_family_id = LowestId(PresentationPositions(families))

\* C10: at every step of the scan and in its result, a set graphics index
\* names a family of the device that supports graphics and a set present
\* index one that supports presentation; so when no family supports both a
\* complete result has two different indices, and the result is complete
\* exactly when the device has a graphics family and a presentation family.
C10_IndicesNameSupportingFamilies ==
    /\ \A g \in family_ids.graphics_family_id : g + 1 \in GraphicsPositions(families)
    /\ \A p \in family_ids.presentation_family_id :
           p + 1 \in PresentationPositions(families)
    /\ scan_pc = "returned" =>
           /\ (/\ is_complete(family_ids)
               /\ GraphicsPositions(families) \cap PresentationPositions(families) = {})
                  => family_ids.graphics_family_id # family_ids.presentation_family_id
           /\ is_complete(family_ids) <=>
                  /\ GraphicsPositions(families) # {}
                  /\ PresentationPositions(families) # {}

\* A completed scan of a device on which no family supports both.
C10_Witness ==
    /\ scan_pc = "returned"
    /\ is_complete(family_ids)
    /\ GraphicsPositions(families) \cap PresentationPositions(families) = {}
    /\ family_ids.graphics_family_id # family_ids.presentation_family_id

\* The four conditions of suitability, each read off what the runtime
\* reports for the device.
IsDiscrete(d) == d.device_type = "DiscreteGpu"
HasSwapchainExtension(d) == d.khr_swapchain
SurfaceReportsFormatAndMode(d) ==
    /\ ~query_swap_chain_support(d).panicked
    /\ Len(query_swap_chain_support(d).formats) >= 1
    /\ Len(query_swap_chain_support(d).present_modes) >= 1
ResolutionComplete(d) ==
    /\ ~find_queue_family_ids(d.queue_families).panicked
    /\ is_complete(find_queue_family_ids(d.queue_families).ids)
FourConditions(d) ==
    /\ IsDiscrete(d)
    /\ HasSwapchainExtension(d)
    /\ SurfaceReportsFormatAndMode(d)
    /\ ResolutionComplete(d)

ReturnedTrue(v) == ~v.panicked /\ v.value
ReturnedFalse(v) == ~v.panicked /\ ~v.value

\* C2: is_device_suitable returns true if and only if the device is a
\* discrete GPU, supports khr_swapchain, the surface reports at least one
\* format and one present mode, and the resolved queue family indices are
\* complete.
C2_SuitableIffAllFour ==
    \A k \in DOMAIN verdicts : ReturnedTrue(verdicts[k]) <=> FourConditions(devices[k])

\* A device failing the device type alone was evaluated and rejected.
C2_Witness ==
    /\ Len(verdicts) = 1
    /\ ~IsDiscrete(devices[1])
    /\ HasSwapchainExtension(devices[1])
    /\ SurfaceReportsFormatAndMode(devices[1])
    /\ ResolutionComplete(devices[1])
    /\ ReturnedFalse(verdicts[1])

SuitablePositions == {k \in DOMAIN devices : FourConditions(devices[k])}

PickEnded == pick_pc \in {"returned", "panicked"}

\* C3: on a device list holding a suitable device, pick_physical_device
\* returns the index of the earliest suitable one, having evaluated the
\* devices in order and none after it.
C3_FirstSuitableReturned ==
    (PickEnded /\ SuitablePositions # {}) =>
        /\ pick_pc = "returned"
        /\ physical_device_index = Some(SetMin(SuitablePositions) - 1)
        /\ Len(verdicts) = SetMin(SuitablePositions)

\* C5: a device failing one of the four checks is only disqualified:
\* is_device_suitable returns false for it, and selection aborts only when
\* no device is suitable.
C5_FailingDeviceOnlyDisqualified ==
    /\ \A k \in DOMAIN verdicts :
           ~FourConditions(devices[k]) => ReturnedFalse(verdicts[k])
    /\ pick_pc = "panicked" => SuitablePositions = {}

ResolvedIds == find_queue_family_ids(devices[unwrap(physical_device_index) + 1].queue_families).ids
ResolvedGraphics == unwrap(ResolvedIds.graphics_family_id)
ResolvedPresent == unwrap(ResolvedIds.presentation_family_id)

\* C4: after create_logical_device the graphics queue belongs to the
\* resolved graphics family and the present queue to the resolved present
\* family, and the present queue is the graphics queue exactly when one
\* queue was created, whatever the iteration order of the family set.
C4_QueuesBelongToTheirFamilies ==
    create_pc \in {"device_created", "swapchain_created"} =>
        /\ unwrap(graphics_queue).family = ResolvedGraphics
        /\ unwrap(present_queue).family = ResolvedPresent
        /\ (present_queue = graphics_queue) <=> (Len(queue_create_infos) = 1)

\* C9: the sharing mode is Exclusive exactly when the resolved graphics and
\* present family are the same index, otherwise Concurrent over
\* [graphics, present]; it is Concurrent exactly when create_logical_device
\* requested two queues.
C9_SharingMode ==
    create_pc = "swapchain_created" =>
        LET sharing == unwrap(swapchain_create_info).image_sharing
        IN  /\ sharing.mode \in {"Exclusive", "Concurrent"}
            /\ (sharing.mode = "Exclusive") <=> (ResolvedGraphics = ResolvedPresent)
            /\ sharing.mode = "Concurrent" =>
                   sharing.queue_family_ids = <<ResolvedGraphics, ResolvedPresent>>
            /\ (sharing.mode = "Concurrent") <=> (Len(queue_create_infos) = 2)

\* A swapchain shared by two distinct families, two queues requested.
C9_Witness ==
    /\ create_pc = "swapchain_created"
    /\ unwrap(swapchain_create_info).image_sharing.mode = "Concurrent"
    /\ ResolvedGraphics # ResolvedPresent
    /\ Len(queue_create_infos) = 2

ReportedCapabilities == devices[unwrap(physical_device_index) + 1].surface_capabilities.value

\* C6: each component of the chosen extent lies within the reported bounds
\* of its dimension: the maximum for a larger size, the minimum for a
\* smaller one, the size itself otherwise, each dimension on its own.
C6_ExtentClamped ==
    create_pc = "swapchain_created" =>
        \A k \in 1..2 :
            LET e == unwrap(swapchain_create_info).image_extent[k]
                lo == ReportedCapabilities.min_image_extent[k]
                hi == ReportedCapabilities.max_image_extent[k]
            IN  /\ lo <= e /\ e <= hi
                /\ inner_size[k] > hi => e = hi
                /\ inner_size[k] < lo => e = lo
                /\ (lo <= inner_size[k] /\ inner_size[k] <= hi) => e = inner_size[k]

\* A window too wide and too low at once.
C6_Witness ==
    /\ create_pc = "swapchain_created"
    /\ inner_size[1] > ReportedCapabilities.max_image_extent[1]
    /\ inner_size[2] < ReportedCapabilities.min_image_extent[2]
    /\ unwrap(swapchain_create_info).image_extent =
           <<ReportedCapabilities.max_image_extent[1],
             ReportedCapabilities.min_image_extent[2]>>

\* C7: the requested image count is min_image_count + 1, lowered to
\* max_image_count when a maximum is reported and exceeded; with a maximum
\* it lies within [min_image_count, max_image_count], without one it is
\* min_image_count + 1.
C7_ImageCount ==
    create_pc = "swapchain_created" =>
        LET n == unwrap(swapchain_create_info).min_image_count
            lo == ReportedCapabilities.min_image_count
            hi == ReportedCapabilities.max_image_count
        IN  /\ hi = None => n = lo + 1
            /\ \A m \in hi : /\ lo <= n /\ n <= m
                             /\ n = IF lo + 1 > m THEN m ELSE lo + 1

\* min = 2, max = 2: the count is lowered to the maximum.
C7_Witness ==
    /\ create_pc = "swapchain_created"
    /\ ReportedCapabilities.min_image_count = 2
    /\ ReportedCapabilities.max_image_count = Some(2)
    /\ unwrap(swapchain_create_info).min_image_count = 2

PreferredFormat == <<"B8G8R8A8_SRGB", "SrgbNonLinear">>
ReportedFormats == devices[unwrap(physical_device_index) + 1].surface_formats.value
ChosenFormat == <<unwrap(swapchain_create_info).image_format,
                  unwrap(swapchain_create_info).image_color_space>>

\* C8: on a non-empty list of supported pairs the chosen pair is
\* (B8G8R8A8_SRGB, SrgbNonLinear) whenever the list holds it, at any
\* position, and the pair at position 0 otherwise; it is always a member of
\* the list.
C8_FormatChoice ==
    create_pc = "swapchain_created" =>
        /\ PreferredFormat \in Range(ReportedFormats) => ChosenFormat = PreferredFormat
        /\ PreferredFormat \notin Range(ReportedFormats) => ChosenFormat = ReportedFormats[1]
        /\ ChosenFormat \in Range(ReportedFormats)

\* The preferred pair chosen from the end of a list that starts otherwise.
C8_Witness ==
    /\ create_pc = "swapchain_created"
    /\ Len(ReportedFormats) >= 2
    /\ ReportedFormats[1] # PreferredFormat
    /\ ReportedFormats[Len(ReportedFormats)] = PreferredFormat
    /\ ChosenFormat = PreferredFormat

====
